---- MODULE Spec2Model ----
(***************************************************************************)
(* Series RLC simulator (Marcelo07sd/rlc): the core package (RLCModel,     *)
(* SignalGenerator, LaplaceSolver) and the MainWindow handlers that drive  *)
(* it.                                                                     *)
(*                                                                         *)
(* Numbers.  Python floats are modelled as exact rationals [n, d] in       *)
(* lowest terms with d > 0; d = 0 stands for a non-finite float (nan or    *)
(* inf).  Units: volts, ohms, milliseconds, millihenries (ohm*ms) and      *)
(* millifarads (ms/ohm), so that 0.001 s is 1 and 0.02 s is 20.            *)
(*                                                                         *)
(* SymPy.  inverse_laplace_transform, lambdify and the evaluation of the   *)
(* lambdified closed form are library calls: whether they raise, and the   *)
(* values the closed form takes at t > 0, are inputs chosen by the         *)
(* environment.  The value of the closed form at t = 0 is the initial      *)
(* value lim s*I(s) of the I(s) that solve builds.                         *)
(***************************************************************************)
EXTENDS Integers, Sequences, FiniteSets, TLC

VARIABLES call, ret, form, rlc_model, solution_text, figure, events, file, laplace_solver

vars == <<call, ret, form, rlc_model, solution_text, figure, events, file, laplace_solver>>

(***************************************************************************)
(* Bounds of the model.                                                    *)
(***************************************************************************)
\* Number of grid points: stands for the 2000 of np.linspace(0, duration, 2000).
NumPoints == 5
\* Longest time grid handed directly to generate_signal.
MaxGridLen == 2

(***************************************************************************)
(* Float arithmetic as exact rationals.                                    *)
(***************************************************************************)
Abs(x) == IF x < 0 THEN -x ELSE x

RECURSIVE GCD(_, _)
GCD(a, b) == IF b = 0 THEN a ELSE GCD(b, a % b)

NaN == [n |-> 0, d |-> 0]

Rat(n, d) ==
    IF d = 0 THEN NaN
    ELSE LET g == GCD(Abs(n), Abs(d))
             s == IF d < 0 THEN -1 ELSE 1
         IN  [n |-> s * (n \div g), d |-> s * (d \div g)]

I(k) == [n |-> k, d |-> 1]

IsFinite(x) == x.d # 0

RNeg(x) == [n |-> -x.n, d |-> x.d]

RAbs(x) == [n |-> Abs(x.n), d |-> x.d]

RAdd(x, y) ==
    IF x.d = 0 \/ y.d = 0 THEN NaN
    ELSE LET g == GCD(x.d, y.d)
         IN  Rat(x.n * (y.d \div g) + y.n * (x.d \div g), (x.d \div g) * y.d)

RSub(x, y) == RAdd(x, RNeg(y))

RMul(x, y) ==
    IF x.d = 0 \/ y.d = 0 THEN NaN
    ELSE LET g1 == GCD(Abs(x.n), y.d)
             g2 == GCD(Abs(y.n), x.d)
         IN  Rat((x.n \div g1) * (y.n \div g2), (x.d \div g2) * (y.d \div g1))

\* numpy float division: a zero divisor gives inf or nan, never an exception.
RDiv(x, y) ==
    IF x.d = 0 \/ y.d = 0 \/ y.n = 0 THEN NaN
    ELSE RMul(x, IF y.n < 0 THEN [n |-> -y.d, d |-> -y.n] ELSE [n |-> y.d, d |-> y.n])

\* Comparisons with a non-finite operand are False, as with nan.
RLt(x, y) ==
    /\ x.d # 0
    /\ y.d # 0
    /\ LET g == GCD(x.d, y.d) IN x.n * (y.d \div g) < y.n * (x.d \div g)

RGe(x, y) ==
    /\ x.d # 0
    /\ y.d # 0
    /\ LET g == GCD(x.d, y.d) IN x.n * (y.d \div g) >= y.n * (x.d \div g)

RLe(x, y) == RGe(y, x)

\* A max that keeps its first argument whatever the second is.
RMax_first(x, y) == x

RMax(x, y) == IF RGe(x, y) THEN x ELSE y

(***************************************************************************)
(* Outcomes of a call: a returned value or a raised exception.             *)
(***************************************************************************)
Return(v) == [raised |-> "none", value |-> v]

Raise(e) == [raised |-> e, value |-> <<>>]

(***************************************************************************)
(* core/signals.py: SignalGenerator.                                       *)
(***************************************************************************)
SignalTypes == {"step", "pulse", "ramp", "delayed", "impulse"}

\* params.get('amplitude', 1)
DefaultAmplitude == 1
\* params.get('a', 0.001), in ms
DefaultA == 1
\* params.get('t0', 0.001), in ms
DefaultT0 == 1
\* dt = ... else 0.0001: one over this many ms
DefaultDtInv == 10

\* dict.get(key, default) on a signal_params dict
Get(params, key, default) ==
    IF key \in DOMAIN params THEN params[key] ELSE default

step_signal(params, t) ==
    LET A == Get(params, "amplitude", I(DefaultAmplitude))
    IN  [k \in 1..Len(t) |-> RMul(A, I(1))]

pulse_signal_late(params, t) ==
    LET A == Get(params, "amplitude", I(DefaultAmplitude))
        a == Get(params, "a", I(DefaultA))
        zeros == [k \in 1..Len(t) |-> I(0)]
        s1 == [k \in 1..Len(t) |-> IF RGe(t[k], I(0)) THEN A ELSE zeros[k]]
    IN  [k \in 1..Len(t) |-> IF RLt(a, t[k]) THEN I(0) ELSE s1[k]]

pulse_signal(params, t) ==
    LET A == Get(params, "amplitude", I(DefaultAmplitude))
        a == Get(params, "a", I(DefaultA))
        zeros == [k \in 1..Len(t) |-> I(0)]
        s1 == [k \in 1..Len(t) |-> IF RGe(t[k], I(0)) THEN A ELSE zeros[k]]
    IN  [k \in 1..Len(t) |-> IF RGe(t[k], a) THEN I(0) ELSE s1[k]]

ramp_signal(params, t) ==
    LET A == Get(params, "amplitude", I(DefaultAmplitude))
    IN  [k \in 1..Len(t) |-> IF RGe(t[k], I(0)) THEN RMul(A, t[k]) ELSE I(0)]

delayed_signal(params, t) ==
    LET A == Get(params, "amplitude", I(DefaultAmplitude))
        t0 == Get(params, "t0", I(DefaultT0))
    IN  [k \in 1..Len(t) |-> IF RGe(t[k], t0) THEN A ELSE I(0)]

impulse_signal(params, t) ==
    LET A == Get(params, "amplitude", I(DefaultAmplitude))
        dt == IF Len(t) > 1 THEN RSub(t[2], t[1]) ELSE Rat(1, DefaultDtInv)
        width == RMul(dt, I(2))
        height == RDiv(A, width)
    IN  [k \in 1..Len(t) |->
            IF RLt(RAbs(t[k]), RDiv(width, I(2))) THEN height ELSE I(0)]

generate_signal(signal_type, params, time_array) ==
    IF signal_type = "step" THEN Return(step_signal(params, time_array))
    ELSE IF signal_type = "pulse" THEN Return(pulse_signal(params, time_array))
    ELSE IF signal_type = "ramp" THEN Return(ramp_signal(params, time_array))
    ELSE IF signal_type = "delayed" THEN Return(delayed_signal(params, time_array))
    ELSE IF signal_type = "impulse" THEN Return(impulse_signal(params, time_array))
    ELSE Raise("ValueError")

(***************************************************************************)
(* core/laplace_solver: transform-domain expressions.                      *)
(*                                                                         *)
(* An expression in s is a sum of terms coef * s^spow * exp(-delay*s),     *)
(* kept as a set, over a denominator den = <<c2, c1, c0>> standing for     *)
(* c2*s^2 + c1*s + c0 (<<>> when there is no denominator).                 *)
(***************************************************************************)
Term(coef, spow, delay) == [coef |-> coef, spow |-> spow, delay |-> delay]

RECURSIVE SumCoef(_)
SumCoef(S) ==
    IF S = {} THEN I(0)
    ELSE LET x == CHOOSE y \in S : TRUE IN RAdd(x.coef, SumCoef(S \ {x}))

\* SymPy's automatic collection of like terms; a zero coefficient vanishes.
Collect(S) ==
    LET keys == {<<x.spow, x.delay>> : x \in S}
        total(key) == SumCoef({x \in S : <<x.spow, x.delay>> = key})
    IN  {Term(total(key), key[1], key[2]) : key \in {q \in keys : total(q).n # 0}}

\* A transform builder that treats a kind it does not know as a step.
get_signal_laplace_lenient(signal_type, params) ==
    Return(Collect({Term(Get(params, "amplitude", I(DefaultAmplitude)), -1, I(0))}))

get_signal_laplace(signal_type, params) ==
    LET A == Get(params, "amplitude", I(DefaultAmplitude))
        a == Get(params, "a", I(DefaultA))
        t0 == Get(params, "t0", I(DefaultT0))
    IN  IF signal_type = "step" THEN Return(Collect({Term(A, -1, I(0))}))
        ELSE IF signal_type = "pulse"
            THEN Return(Collect({Term(A, -1, I(0)), Term(RNeg(A), -1, a)}))
        ELSE IF signal_type = "ramp" THEN Return(Collect({Term(A, -2, I(0))}))
        ELSE IF signal_type = "delayed" THEN Return(Collect({Term(A, -1, t0)}))
        ELSE IF signal_type = "impulse" THEN Return(Collect({Term(A, 0, I(0))}))
        ELSE Raise("ValueError")

\* A mis-built impedance without the inductor term s*L.
Z_s_noL(R, L, C) == <<I(0), R, RDiv(I(1), C)>>

\* Z(s) = R + s*L + 1/(s*C), as the coefficients of s^2, s, 1 of s*Z(s).
Z_s(R, L, C) == <<L, R, RDiv(I(1), C)>>

\* I(s) = simplify(V(s) / Z(s))
I_s(V, Z) ==
    IF V = {} THEN [terms |-> {}, den |-> <<>>]
    ELSE [terms |-> {Term(x.coef, x.spow + 1, x.delay) : x \in V}, den |-> Z]

HasFreeS(expr) == expr.terms # {}

\* _numerical_inverse_laplace hands back something other than I(s).
numerical_inverse_laplace_zero(Is, R, L, C) == [terms |-> {}, den |-> <<>>]

numerical_inverse_laplace(Is, R, L, C) == Is

\* Degree and leading coefficient of den.
DenDeg(den) == IF den[1].n # 0 THEN 2 ELSE IF den[2].n # 0 THEN 1 ELSE 0

DenLead(den) == den[3 - DenDeg(den)]

\* lim s*F(s) as s grows, for one term of I(s) without delay.
TermInitialValue(x, den) ==
    IF x.spow + 1 < DenDeg(den) THEN I(0)
    ELSE IF x.spow + 1 = DenDeg(den) THEN RDiv(x.coef, DenLead(den))
    ELSE NaN

RECURSIVE SumInitial(_, _)
SumInitial(S, den) ==
    IF S = {} THEN I(0)
    ELSE LET x == CHOOSE y \in S : TRUE
         IN  RAdd(IF RLt(I(0), x.delay) THEN I(0) ELSE TermInitialValue(x, den),
                  SumInitial(S \ {x}, den))

\* The closed form i(t) evaluated at t = 0: delayed terms carry Heaviside(t - d) = 0.
InitialValue(expr) == SumInitial(expr.terms, expr.den)

InitialValueKnown(expr) == \A x \in expr.terms : RGe(x.delay, I(0))

(***************************************************************************)
(* core/laplace_solver: the time grid and the numerical traces.            *)
(***************************************************************************)
\* max(a * 10, 0.01): the factor
DurationFactor == 10
\* max(a * 10, 0.01): 0.01 s in ms
MinDuration == 10
\* return 0.02, in ms
DefaultDuration == 20

\* A duration policy that ignores the signal: always 0.02 s.
get_duration_fixed(signal_type, params) == I(DefaultDuration)

get_duration(signal_type, params) ==
    IF signal_type = "pulse"
        THEN RMax(RMul(Get(params, "a", I(DefaultA)), I(DurationFactor)), I(MinDuration))
    ELSE IF signal_type = "delayed"
        THEN RMax(RMul(Get(params, "t0", I(DefaultT0)), I(DurationFactor)), I(MinDuration))
    ELSE I(DefaultDuration)

\* A grid that stops one step short of stop (endpoint excluded).
linspace_open(start, stop, num) ==
    [k \in 1..num |-> RAdd(start, RDiv(RMul(I(k - 1), RSub(stop, start)), I(num)))]

\* np.linspace(start, stop, num)
linspace(start, stop, num) ==
    [k \in 1..num |-> RAdd(start, RDiv(RMul(I(k - 1), RSub(stop, start)), I(num - 1)))]

\* A loop body whose capacitor update uses the freshly computed i[k].
EulerStep_fresh_i(p, v_in, dt, R, L, C) ==
    LET i == RAdd(p.i, RMul(RDiv(RSub(RSub(v_in, RMul(R, p.i)), p.v_c), L), dt))
    IN  [i |-> i, v_c |-> RAdd(p.v_c, RMul(RDiv(i, C), dt))]

\* One pass of the Euler loop body: the pair (i[k], v_c[k]) from the pair p at k-1.
EulerStep(p, v_in, dt, R, L, C) ==
    [i |-> RAdd(p.i, RMul(RDiv(RSub(RSub(v_in, RMul(R, p.i)), p.v_c), L), dt)),
     v_c |-> RAdd(p.v_c, RMul(RDiv(p.i, C), dt))]

\* The Euler loop: the pairs (i[k], v_c[k]) for k = 1..n, both starting at 0;
\* st holds the pairs computed so far.
RECURSIVE EulerStates(_, _, _, _, _, _, _)
EulerStates(st, n, dt, input_signal, R, L, C) ==
    IF Len(st) >= n THEN st
    ELSE EulerStates(Append(st, EulerStep(st[Len(st)], input_signal[Len(st)], dt, R, L, C)),
                     n, dt, input_signal, R, L, C)

numerical_simulation(time_array, input_signal, R, L, C) ==
    LET dt == RSub(time_array[2], time_array[1])
        n == Len(time_array)
        st == EulerStates(<<[i |-> I(0), v_c |-> I(0)]>>, n, dt, input_signal, R, L, C)
    IN  [k \in 1..n |-> st[k].i]

\* np.gradient(current, time): second-order inside, one-sided at both ends.
gradient(f, x) ==
    LET n == Len(f)
        inner(k) ==
            LET hs == RSub(x[k], x[k - 1])
                hd == RSub(x[k + 1], x[k])
                a == RNeg(RDiv(hd, RMul(hs, RAdd(hd, hs))))
                b == RDiv(RSub(hd, hs), RMul(hd, hs))
                c == RDiv(hs, RMul(hd, RAdd(hd, hs)))
            IN  RAdd(RAdd(RMul(a, f[k - 1]), RMul(b, f[k])), RMul(c, f[k + 1]))
    IN  [k \in 1..n |->
            IF k = 1 THEN RDiv(RSub(f[2], f[1]), RSub(x[2], x[1]))
            ELSE IF k = n THEN RDiv(RSub(f[n], f[n - 1]), RSub(x[n], x[n - 1]))
            ELSE inner(k)]

calculate_voltage_L(time, current, L) ==
    LET di_dt == gradient(current, time)
    IN  [k \in 1..Len(current) |-> RMul(L, di_dt[k])]

\* An accumulation by left rectangles, as the Euler integrator keeps its v_c.
RECURSIVE Trapezoid_left(_, _, _, _)
Trapezoid_left(v_c, current, dt, C) ==
    IF Len(v_c) >= Len(current) THEN v_c
    ELSE Trapezoid_left(Append(v_c, RAdd(v_c[Len(v_c)],
                                         RDiv(RMul(current[Len(v_c)], dt), C))),
                        current, dt, C)

\* The trapezoid loop; v_c holds the values accumulated so far, from v_c[0] = 0.
RECURSIVE Trapezoid(_, _, _, _)
Trapezoid(v_c, current, dt, C) ==
    IF Len(v_c) >= Len(current) THEN v_c
    ELSE Trapezoid(Append(v_c,
                          RAdd(v_c[Len(v_c)],
                               RDiv(RMul(RDiv(RAdd(current[Len(v_c) + 1], current[Len(v_c)]),
                                              I(2)), dt), C))),
                   current, dt, C)

calculate_voltage_C(time, current, C) ==
    Trapezoid(<<I(0)>>, current, RSub(time[2], time[1]), C)

(***************************************************************************)
(* core/rlc_model.py: RLCModel.  Square roots are kept squared:            *)
(* omega_0_sq = omega_0^2, zeta_sq = zeta^2, omega_d_sq = omega_d^2.       *)
(***************************************************************************)
\* A classification without the zeta == 1 branch: critical damping is reported
\* as overdamped.
RLCModel_no_critical(R, L, C) ==
    IF L.n = 0 THEN Raise("ZeroDivisionError")
    ELSE LET LC == RMul(L, C)
             CL == RDiv(C, L)
             omega_0_sq == IF RLt(I(0), LC) THEN RDiv(I(1), LC) ELSE NaN
             zeta_sq == IF RGe(CL, I(0)) THEN RDiv(RMul(RMul(R, R), CL), I(4)) ELSE NaN
             zeta_lt_1 == RGe(CL, I(0)) /\ (RLe(R, I(0)) \/ RLt(zeta_sq, I(1)))
         IN  Return([R |-> R, L |-> L, C |-> C,
                     omega_0_sq |-> omega_0_sq,
                     zeta_sq |-> zeta_sq,
                     damping_type |->
                         IF zeta_lt_1 THEN "subamortiguado" ELSE "sobreamortiguado",
                     omega_d_sq |->
                         IF ~zeta_lt_1 THEN I(0)
                         ELSE IF RGe(I(1), zeta_sq)
                             THEN RMul(omega_0_sq, RSub(I(1), zeta_sq))
                         ELSE NaN])

RLCModel(R, L, C) ==
    IF L.n = 0 THEN Raise("ZeroDivisionError")
    ELSE LET LC == RMul(L, C)
             CL == RDiv(C, L)
             omega_0_sq == IF RLt(I(0), LC) THEN RDiv(I(1), LC) ELSE NaN
             zeta_sq == IF RGe(CL, I(0)) THEN RDiv(RMul(RMul(R, R), CL), I(4)) ELSE NaN
             zeta_lt_1 == RGe(CL, I(0)) /\ (RLe(R, I(0)) \/ RLt(zeta_sq, I(1)))
             zeta_eq_1 == RGe(CL, I(0)) /\ RLt(I(0), R) /\ zeta_sq = I(1)
         IN  Return([R |-> R, L |-> L, C |-> C,
                     omega_0_sq |-> omega_0_sq,
                     zeta_sq |-> zeta_sq,
                     damping_type |->
                         IF zeta_lt_1 THEN "subamortiguado"
                         ELSE IF zeta_eq_1 THEN "criticamente amortiguado"
                         ELSE "sobreamortiguado",
                     omega_d_sq |->
                         IF ~zeta_lt_1 THEN I(0)
                         ELSE IF RGe(I(1), zeta_sq)
                             THEN RMul(omega_0_sq, RSub(I(1), zeta_sq))
                         ELSE NaN])

(***************************************************************************)
(* core/laplace_solver: LaplaceSolver.solve.                               *)
(*                                                                         *)
(* env is what SymPy and NumPy do on this call:                            *)
(*   inversion   "closed" | "unevaluated" | "raise"                        *)
(*   evaluation  "real" | "complex" | "nonfinite" | "raise"                *)
(*   w           the (real parts of the) closed form's samples             *)
(*   nanfrom     first index of the non-finite samples, if any             *)
(***************************************************************************)
Inversions == {"closed", "unevaluated", "raise"}

Evaluations == {"real", "complex", "nonfinite", "raise"}

\* try: inverse_laplace_transform + simplify; except: _numerical_inverse_laplace
invert(Is, R, L, C, env) ==
    IF ~HasFreeS(Is) THEN [form |-> "closed", expr |-> Is]
    ELSE IF env.inversion = "raise"
        THEN [form |-> "transform", expr |-> numerical_inverse_laplace(Is, R, L, C)]
    ELSE [form |-> env.inversion, expr |-> Is]

\* i_func = lambdify(t, i_t); np.array([i_func(t_val) for t_val in time_array])
lambdify_eval(i_t, time_array, env) ==
    LET n == Len(time_array)
    IN  IF ~HasFreeS(i_t.expr) THEN Return([k \in 1..n |-> I(0)])
        ELSE IF i_t.form # "closed" THEN Raise("NameError")
        ELSE IF env.evaluation = "raise" THEN Raise("Exception")
        ELSE Return([k \in 1..n |->
                 IF env.evaluation = "nonfinite" /\ k >= env.nanfrom THEN NaN
                 ELSE IF k = 1 /\ InitialValueKnown(i_t.expr) THEN InitialValue(i_t.expr)
                 ELSE env.w[k]])

\* The try/except of _generate_numerical_solution, given the grid, the sampled
\* input and what lambdify and the evaluation did.
current_or_fallback(time_array, input, ev, R, L, C) ==
    IF input.raised # "none" THEN input
    ELSE Return([time |-> time_array,
                 current |-> IF ev.raised = "none" THEN ev.value
                             ELSE numerical_simulation(time_array, input.value, R, L, C),
                 input_signal |-> input.value,
                 path |-> IF ev.raised = "none" THEN "closed_form" ELSE "euler"])

numerical_solution_on(time_array, i_t, signal_type, signal_params, R, L, C, env) ==
    current_or_fallback(time_array,
                        generate_signal(signal_type, signal_params, time_array),
                        lambdify_eval(i_t, time_array, env), R, L, C)

generate_numerical_solution(i_t, signal_type, signal_params, R, L, C, env) ==
    numerical_solution_on(linspace(I(0), get_duration(signal_type, signal_params), NumPoints),
                          i_t, signal_type, signal_params, R, L, C, env)

\* LaplaceSolver.__init__: the symbols t and s and a SignalGenerator, which has
\* no field of its own.
LaplaceSolver == [t |-> "t", s |-> "s", signal_gen |-> "SignalGenerator()"]

\* A solve that keeps the last signal type on the object.
solve_self_remembering(self, signal_type, signal_params) ==
    [self EXCEPT !.signal_gen = signal_type]

\* The solver object as solve leaves it: solve assigns no attribute of self or
\* of self.signal_gen, whether it returns or raises.
solve_self(self, signal_type, signal_params) == self

\* solve's symbolic result alone (what precedes the numerical solution).
solve_symbolic(R, L, C, signal_type, signal_params, env) ==
    LET V == get_signal_laplace(signal_type, signal_params)
    IN  IF V.raised # "none" THEN V
        ELSE Return(invert(I_s(V.value, Z_s(R, L, C)), R, L, C, env))

\* The voltages and the returned dict, given i_t and the numerical solution.
solve_result(i_t, num, R, L, C) ==
    IF num.raised # "none" THEN [ret |-> num, path |-> "raised"]
    ELSE [ret |-> Return([symbolic |-> i_t,
                          time |-> num.value.time,
                          current |-> num.value.current,
                          voltage_R |-> [k \in 1..Len(num.value.current) |->
                                            RMul(num.value.current[k], R)],
                          voltage_L |-> calculate_voltage_L(num.value.time,
                                                            num.value.current, L),
                          voltage_C |-> calculate_voltage_C(num.value.time,
                                                            num.value.current, C),
                          input_signal |-> num.value.input_signal]),
          path |-> num.value.path]

solve_from(i_t, R, L, C, signal_type, signal_params, env) ==
    IF i_t.raised # "none" THEN [ret |-> i_t, path |-> "raised"]
    ELSE solve_result(i_t.value,
                      generate_numerical_solution(i_t.value, signal_type, signal_params,
                                                  R, L, C, env),
                      R, L, C)

\* solve: the returned dict, and beside it the branch that produced the current.
solve(R, L, C, signal_type, signal_params, env) ==
    solve_from(solve_symbolic(R, L, C, signal_type, signal_params, env),
               R, L, C, signal_type, signal_params, env)

(***************************************************************************)
(* Inputs.                                                                 *)
(***************************************************************************)
AllKinds == SignalTypes \cup {"square", "delayed-step"}

ParamKeys == {"amplitude", "a", "t0"}

AmplitudeVals == {I(5), I(-2), I(0)}

WidthVals == {I(0), I(1), I(2), I(-1)}

ParamVals(key) == IF key = "amplitude" THEN AmplitudeVals ELSE WidthVals

\* signal_params dicts: any subset of the keys may be present.
ParamDicts ==
    UNION {{f \in [K -> AmplitudeVals \cup WidthVals] :
                \A key \in K : f[key] \in ParamVals(key)} : K \in SUBSET ParamKeys}

TimeVals == {I(-1), I(0), I(1), I(2)}

Grids == UNION {[1..n -> TimeVals] : n \in 0..MaxGridLen}

\* Circuits handed to solve (R, L, C > 0): underdamped, critically damped,
\* overdamped, and one with another L and C.
SolveCircuits ==
    {[R |-> I(1), L |-> I(10), C |-> I(10)], [R |-> I(2), L |-> I(10), C |-> I(10)],
     [R |-> I(4), L |-> I(10), C |-> I(10)], [R |-> I(1), L |-> I(20), C |-> I(5)]}

\* Arguments handed to the RLCModel constructor.
CtorR == {I(-1), I(0), I(1), I(2), I(4)}
CtorL == {I(-1), I(0), I(10)}
CtorC == {I(-1), I(0), I(10)}

\* signal_params dicts handed to solve: as the form builds them, the keys the
\* signal type reads, each present or absent.
SolveKeys(signal_type) ==
    IF signal_type = "pulse" THEN {"amplitude", "a"}
    ELSE IF signal_type = "delayed" THEN {"amplitude", "t0"}
    ELSE {"amplitude"}

SolveParams(signal_type) == {f \in ParamDicts : DOMAIN f \subseteq SolveKeys(signal_type)}

\* Samples of a closed form: two traces, one constant and one alternating.
ClosedTraces ==
    {[k \in 1..NumPoints |-> I(1)],
     [k \in 1..NumPoints |-> IF k % 2 = 0 THEN I(2) ELSE I(-1)]}

Env(inversion, evaluation, w, nanfrom) ==
    [inversion |-> inversion, evaluation |-> evaluation, w |-> w, nanfrom |-> nanfrom]

NoTrace == [k \in 1..NumPoints |-> I(0)]

(***************************************************************************)
(* State.  call is the last call made and, for solve, what SymPy did and   *)
(* the branch that produced the current; ret is what the call returned or  *)
(* raised.  The other variables are the MainWindow's: the text of the form *)
(* fields, self.rlc_model, the solution text, the figure, and events, the  *)
(* calls made and dialogs shown by the last handler, in order; file is the  *)
(* parameter file that save_parameters writes, and laplace_solver is the    *)
(* LaplaceSolver object shared by all calls.                               *)
(***************************************************************************)
NoCall == [op |-> "none"]

\* The text of a QLineEdit: text that float() parses to v, or text it rejects.
Text(v) == [ok |-> TRUE, v |-> v]

BadText == [ok |-> FALSE, v |-> I(0)]

\* ParameterForm._init_ui: "100", "0.1" (H), "0.00001" (F), "10", "0.001", "0.001".
InitForm ==
    [r_input |-> Text(I(100)), l_input |-> Text(I(100)), c_input |-> Text(Rat(1, 100)),
     signal_combo |-> 0, amplitude_input |-> Text(I(10)),
     param_a_input |-> Text(I(1)), param_t0_input |-> Text(I(1))]

NoModel == [exists |-> FALSE]

NoText == [shown |-> FALSE]

NoFigure == [axes |-> FALSE]

NoFile == [exists |-> FALSE]

Init ==
    /\ call = NoCall
    /\ ret = Return(<<>>)
    /\ form = InitForm
    /\ rlc_model = NoModel
    /\ solution_text = NoText
    /\ figure = NoFigure
    /\ events = <<>>
    /\ file = NoFile
    /\ laplace_solver = LaplaceSolver

uiVars == <<form, rlc_model, solution_text, figure, events, file>>

(***************************************************************************)
(* Direct calls of the core package.                                       *)
(***************************************************************************)
\* A call is made by a caller that holds no earlier result.
ConstructCall ==
    /\ call = NoCall
    /\ \E R \in CtorR, L \in CtorL, C \in CtorC :
        /\ call' = [op |-> "RLCModel", R |-> R, L |-> L, C |-> C]
        /\ ret' = RLCModel(R, L, C)
        /\ UNCHANGED <<uiVars, laplace_solver>>

TransformCall ==
    /\ call = NoCall
    /\ \E signal_type \in AllKinds, params \in ParamDicts :
        /\ call' = [op |-> "transform", signal_type |-> signal_type, params |-> params]
        /\ ret' = get_signal_laplace(signal_type, params)
        /\ UNCHANGED <<uiVars, laplace_solver>>

SampleCall ==
    /\ call = NoCall
    /\ \E signal_type \in AllKinds, params \in ParamDicts, grid \in Grids :
        /\ call' = [op |-> "sample", signal_type |-> signal_type, params |-> params,
                    grid |-> grid]
        /\ ret' = generate_signal(signal_type, params, grid)
        /\ UNCHANGED <<uiVars, laplace_solver>>

\* The environments that can differ on this call: SymPy is only asked to invert
\* and evaluate an expression that depends on s.
Envs(signal_type, params) ==
    LET V == get_signal_laplace(signal_type, params)
    IN  IF V.raised # "none" \/ V.value = {}
            THEN {Env("closed", "real", NoTrace, NumPoints + 1)}
        ELSE {Env(inv, "raise", NoTrace, NumPoints + 1) : inv \in Inversions}
             \cup {Env("closed", ev, w, NumPoints + 1) :
                      ev \in {"real", "complex"}, w \in ClosedTraces}
             \cup {Env("closed", "nonfinite", w, j) :
                      w \in ClosedTraces, j \in {2, NumPoints}}

SolveCall ==
    /\ call = NoCall
    /\ \E rlc \in SolveCircuits, signal_type \in AllKinds :
        \E params \in SolveParams(signal_type) :
        \E env \in Envs(signal_type, params) :
            LET out == solve(rlc.R, rlc.L, rlc.C, signal_type, params, env)
            IN  /\ call' = [op |-> "solve", R |-> rlc.R, L |-> rlc.L, C |-> rlc.C,
                            signal_type |-> signal_type, params |-> params,
                            inversion |-> IF out.path = "raised" THEN "none"
                                          ELSE env.inversion,
                            evaluation |-> IF out.path = "raised" THEN "none"
                                           ELSE env.evaluation,
                            path |-> out.path]
                /\ ret' = out.ret
                /\ laplace_solver' = solve_self(laplace_solver, signal_type, params)
                /\ UNCHANGED uiVars

\* The caller drops what the call returned; the core keeps nothing of it.
ReturnToCaller ==
    /\ call # NoCall
    /\ call' = NoCall
    /\ ret' = Return(<<>>)
    /\ UNCHANGED <<uiVars, laplace_solver>>

CoreNext == ConstructCall \/ TransformCall \/ SampleCall \/ SolveCall \/ ReturnToCaller

CoreSpec == Init /\ [][CoreNext]_vars

(***************************************************************************)
(* Properties of the core package, checked under CoreSpec.                 *)
(***************************************************************************)
SolveReturned == call.op = "solve" /\ ret.raised = "none"

\* The trace _numerical_simulation gives for the returned grid and input.
EulerOfResult ==
    numerical_simulation(ret.value.time, ret.value.input_signal, call.R, call.L, call.C)

ResultFields ==
    {"symbolic", "time", "current", "voltage_R", "voltage_L", "voltage_C", "input_signal"}

\* C1: whenever evaluating the closed form over the grid fails, by raising or by
\* producing non-finite or complex values, the current that solve returns is the
\* Euler simulation driven by the sampled input signal.
C1_FailedEvaluationGivesEuler ==
    (SolveReturned /\ call.evaluation \in {"raise", "nonfinite", "complex"})
        => ret.value.current = EulerOfResult

\* C2: whenever solve takes the Euler fallback, the result carries a marker that
\* separates it from a result evaluated from the closed form: a symbolic field
\* that is not a closed form, or a field beyond the seven of the closed-form case.
C2_FallbackIsObservable ==
    (SolveReturned /\ call.path = "euler")
        => \/ ret.value.symbolic.form # "closed"
           \/ \E field \in DOMAIN ret.value : field \notin ResultFields

\* C3: if the analytic inversion of I(s) raises, solve still returns: symbolic
\* holds the un-inverted I(s) = V(s)/Z(s), the current is the numerical (Euler)
\* trace, and the result has exactly the seven fields.
C3_InversionFailureDegrades ==
    (call.op = "solve" /\ call.inversion = "raise")
        => /\ ret.raised = "none"
           /\ DOMAIN ret.value = ResultFields
           /\ ret.value.symbolic =
                  [form |-> "transform",
                   expr |-> I_s(get_signal_laplace(call.signal_type, call.params).value,
                                Z_s(call.R, call.L, call.C))]
           /\ call.path = "euler"
           /\ ret.value.current = EulerOfResult

C3_Witness ==
    /\ SolveReturned
    /\ call.inversion = "raise"
    /\ call.signal_type = "pulse"
    /\ \E k \in 1..NumPoints : ret.value.current[k] # I(0)

\* C4: constructing an RLCModel with any of R, L, C not strictly positive fails
\* with an error and produces no model object.
C4_ConstructorRejectsNonPositive ==
    (call.op = "RLCModel"
        /\ (RLe(call.R, I(0)) \/ RLe(call.L, I(0)) \/ RLe(call.C, I(0))))
        => ret.raised # "none"

\* C6: for a signal kind outside step, pulse, ramp, delayed, impulse, the
\* transform builder and the sampler raise the unknown-kind error (ValueError),
\* and solve aborts with it, returning nothing and building no grid or trace.
C6_UnknownKindRaises ==
    (call.op \in {"transform", "sample", "solve"}
        /\ call.signal_type \notin {"step", "pulse", "ramp", "delayed", "impulse"})
        => /\ ret = Raise("ValueError")
           /\ call.op = "solve" => call.path = "raised"

C6_Witness ==
    /\ call.op = "solve"
    /\ call.signal_type = "square"
    /\ ret.raised = "ValueError"

\* C7: every result of solve, closed-form or Euler, has time, current,
\* input_signal and the three voltages of one common length (NumPoints, standing
\* for 2000), over a uniform non-negative grid from 0 to the signal's duration.
C7_CommonGrid ==
    SolveReturned
        => /\ \A field \in ResultFields \ {"symbolic"} : Len(ret.value[field]) = NumPoints
           /\ ret.value.time[1] = I(0)
           /\ ret.value.time[NumPoints] = get_duration(call.signal_type, call.params)
           /\ \A k \in 1..NumPoints : RGe(ret.value.time[k], I(0))
           /\ \A k \in 1..(NumPoints - 1) :
                  RSub(ret.value.time[k + 1], ret.value.time[k])
                      = RSub(ret.value.time[2], ret.value.time[1])

C7_Witness ==
    /\ SolveReturned
    /\ call.path = "euler"
    /\ call.signal_type = "pulse"
    /\ ret.value.time[NumPoints] = I(20)

\* C8: for a step input of any amplitude on a circuit with positive R, L, C, the
\* first sample of the returned current (t = 0) is 0, on the closed-form path and
\* on the Euler path.
C8_StepStartsAtZero ==
    (SolveReturned /\ call.signal_type = "step") => ret.value.current[1] = I(0)

C8_Witness ==
    /\ SolveReturned
    /\ call.signal_type = "step"
    /\ call.path = "closed_form"
    /\ call.params = [key \in {"amplitude"} |-> I(5)]
    /\ ret.value.current[1] = I(0)
    /\ ret.value.current[2] # I(0)

\* V_R[k] + V_L[k] + V_C[k] - input_signal[k] of the returned result.
KVLResidual(k) ==
    RSub(RAdd(RAdd(ret.value.voltage_R[k], ret.value.voltage_L[k]), ret.value.voltage_C[k]),
         ret.value.input_signal[k])

\* A tolerance of the order of the grid spacing dt: twice the gap between the
\* Euler update and the central-difference/trapezoid voltages of a trace whose
\* input is continuous, R*|i[k]-i[k-1]|/2 + (|i[k]|+|i[k-1]|)*dt/(2C), plus
\* |A|*dt for the slope of a ramp.  The first sample (forward difference, both
\* traces 0) is exact.
KVLTolerance(k) ==
    IF k = 1 THEN I(0)
    ELSE LET dt == RSub(ret.value.time[2], ret.value.time[1])
             i == ret.value.current
         IN  RAdd(RAdd(RMul(call.R, RAbs(RSub(i[k], i[k - 1]))),
                       RDiv(RMul(RAdd(RAbs(i[k]), RAbs(i[k - 1])), dt), call.C)),
                  IF call.signal_type = "ramp"
                      THEN RMul(RAbs(Get(call.params, "amplitude", I(DefaultAmplitude))), dt)
                  ELSE I(0))

\* C9: for a solved result and every sample k, V_R[k] + V_L[k] + V_C[k]
\* reconstructs input_signal[k] within numerical tolerance, for every signal
\* kind; stated here for the Euler path, whose current the code computes itself.
C9_KirchhoffWithinTolerance ==
    (SolveReturned /\ call.path = "euler")
        => \A k \in 1..NumPoints : RLe(RAbs(KVLResidual(k)), KVLTolerance(k))

\* The waveform of a kind at time x, with the defaults A = 1, a = 0.001 s,
\* t0 = 0.001 s for an absent parameter.
Waveform(signal_type, params, x) ==
    LET A == IF "amplitude" \in DOMAIN params THEN params["amplitude"] ELSE I(1)
        a == IF "a" \in DOMAIN params THEN params["a"] ELSE I(1)
        t0 == IF "t0" \in DOMAIN params THEN params["t0"] ELSE I(1)
    IN  IF signal_type = "step" THEN A
        ELSE IF signal_type = "pulse"
            THEN (IF RLe(I(0), x) /\ RLt(x, a) THEN A ELSE I(0))
        ELSE IF signal_type = "ramp"
            THEN (IF RLe(I(0), x) THEN RMul(A, x) ELSE I(0))
        ELSE IF RLe(t0, x) THEN A ELSE I(0)

RECURSIVE SeqSum(_)
SeqSum(f) == IF f = <<>> THEN I(0) ELSE RAdd(f[1], SeqSum(Tail(f)))

\* A grid of at least two points that starts at 0 with one positive spacing.
UniformFromZero(grid) ==
    /\ Len(grid) >= 2
    /\ grid[1] = I(0)
    /\ RLt(I(0), grid[2])
    /\ \A k \in 1..(Len(grid) - 1) : RSub(grid[k + 1], grid[k]) = grid[2]

\* C11: sampling an impulse of amplitude A on a uniform grid that starts at 0
\* with spacing dt gives height A/(2*dt) where |t| < dt and 0 elsewhere, and the
\* discrete area (sum of the samples times dt) is approximately A (here: within
\* a quarter of |A|).
C11_ImpulseAreaIsAmplitude ==
    (call.op = "sample" /\ call.signal_type = "impulse" /\ UniformFromZero(call.grid))
        => LET A == IF "amplitude" \in DOMAIN call.params
                        THEN call.params["amplitude"] ELSE I(1)
               dt == call.grid[2]
           IN  /\ ret.raised = "none"
               /\ \A k \in 1..Len(call.grid) :
                      ret.value[k] = IF RLt(RAbs(call.grid[k]), dt)
                                         THEN RDiv(A, RMul(I(2), dt)) ELSE I(0)
               /\ RLe(RMul(I(4), RAbs(RSub(RMul(SeqSum(ret.value), dt), A))), RAbs(A))

\* The one-sided transform, the integral over t >= 0 of f(t)*exp(-s*t), of the
\* waveform f that the sampler gives for a kind (Waveform above; the impulse as
\* A*delta(t)): a pulse with a <= 0 is 0 on t >= 0, a delayed step with t0 <= 0
\* is A on all of t >= 0.
OneSidedTransform(signal_type, params) ==
    LET A == IF "amplitude" \in DOMAIN params THEN params["amplitude"] ELSE I(1)
        a == IF "a" \in DOMAIN params THEN params["a"] ELSE I(1)
        t0 == IF "t0" \in DOMAIN params THEN params["t0"] ELSE I(1)
    IN  IF signal_type = "step" THEN {Term(A, -1, I(0))}
        ELSE IF signal_type = "pulse"
            THEN (IF RLt(I(0), a) THEN {Term(A, -1, I(0)), Term(RNeg(A), -1, a)} ELSE {})
        ELSE IF signal_type = "ramp" THEN {Term(A, -2, I(0))}
        ELSE IF signal_type = "delayed"
            THEN (IF RLt(I(0), t0) THEN {Term(A, -1, t0)} ELSE {Term(A, -1, I(0))})
        ELSE {Term(A, 0, I(0))}

\* C12: the transform builder maps each kind to its one-sided transform (A/s,
\* (A/s)*(1 - exp(-a*s)), A/s^2, (A/s)*exp(-t0*s), A) with the sampler's
\* defaults, so that for any params the transform is that of the sampled waveform.
C12_TransformOfSampledWaveform ==
    (call.op = "transform"
        /\ call.signal_type \in {"step", "pulse", "ramp", "delayed", "impulse"})
        => ret = Return(Collect(OneSidedTransform(call.signal_type, call.params)))

ConstructedPositive ==
    /\ call.op = "RLCModel"
    /\ RLt(I(0), call.R)
    /\ RLt(I(0), call.L)
    /\ RLt(I(0), call.C)

\* C13: for positive R, L, C the damping regime is exactly one of underdamped,
\* critically damped, overdamped and agrees with zeta = (R/2)*sqrt(C/L):
\* underdamped iff zeta < 1, critical iff zeta = 1, overdamped iff zeta > 1;
\* omega_d is omega_0*sqrt(1 - zeta^2) when underdamped and 0 otherwise (zeta,
\* omega_0 and omega_d are compared by their squares).
C13_DampingAgreesWithZeta ==
    ConstructedPositive
        => /\ ret.raised = "none"
           /\ ret.value.zeta_sq
                  = RDiv(RMul(RMul(call.R, call.R), call.C), RMul(I(4), call.L))
           /\ ret.value.omega_0_sq = RDiv(I(1), RMul(call.L, call.C))
           /\ ret.value.damping_type
                  \in {"subamortiguado", "criticamente amortiguado", "sobreamortiguado"}
           /\ ret.value.damping_type = "subamortiguado" <=> RLt(ret.value.zeta_sq, I(1))
           /\ ret.value.damping_type = "criticamente amortiguado"
                  <=> ret.value.zeta_sq = I(1)
           /\ ret.value.damping_type = "sobreamortiguado" <=> RLt(I(1), ret.value.zeta_sq)
           /\ ret.value.omega_d_sq
                  = IF RLt(ret.value.zeta_sq, I(1))
                        THEN RMul(ret.value.omega_0_sq, RSub(I(1), ret.value.zeta_sq))
                    ELSE I(0)

C13_Witness ==
    /\ ConstructedPositive
    /\ ret.raised = "none"
    /\ ret.value.damping_type = "criticamente amortiguado"
    /\ ret.value.zeta_sq = I(1)

\* C16: solve is stateless across calls: it changes no field of the LaplaceSolver
\* or of its SignalGenerator, so after any sequence of solve calls on the shared
\* solver (calls that raise or take the fallback included) the solver is as
\* freshly constructed, and a later call runs on the same object as a first one.
C16_SolveLeavesSolverFresh == laplace_solver = LaplaceSolver

C16_Witness ==
    /\ call.op = "solve"
    /\ call.path = "euler"
    /\ laplace_solver = LaplaceSolver

\* v_C[k] of the recurrence v_C[1] = 0, v_C[k] = v_C[k-1] + dt*i[k-1]/C unfolded:
\* dt/C times the sum of i[1..k-1] (indices from 1).
CapacitorState(i, k, dt, C) == RDiv(RMul(SeqSum(SubSeq(i, 1, k - 1)), dt), C)

\* C18: the Euler fallback starts from i[0] = 0 and v_C[0] = 0 and for every later
\* k sets i[k] = i[k-1] + dt*(V_in[k-1] - R*i[k-1] - v_C[k-1])/L with
\* v_C[k] = v_C[k-1] + dt*i[k-1]/C, both from step k-1 values only; the current
\* it returns has the length of the grid.
C18_EulerRecurrence ==
    (SolveReturned /\ call.path = "euler")
        => LET i == ret.value.current
               v == ret.value.input_signal
               dt == RSub(ret.value.time[2], ret.value.time[1])
           IN  /\ Len(i) = Len(ret.value.time)
               /\ i[1] = I(0)
               /\ \A k \in 2..Len(i) :
                      i[k] = RAdd(i[k - 1],
                                  RDiv(RMul(dt, RSub(RSub(v[k - 1], RMul(call.R, i[k - 1])),
                                                     CapacitorState(i, k - 1, dt, call.C))),
                                       call.L))

C18_Witness ==
    /\ SolveReturned
    /\ call.path = "euler"
    /\ call.signal_type = "step"
    /\ CapacitorState(ret.value.current, NumPoints - 1,
                      RSub(ret.value.time[2], ret.value.time[1]), call.C) # I(0)
    /\ ret.value.current[NumPoints] # ret.value.current[NumPoints - 1]

\* The duration the policy prescribes, in ms: max(10*a, 10) for pulse,
\* max(10*t0, 10) for delayed, 20 otherwise, a and t0 being 1 (0.001 s) when absent.
PolicyDuration(signal_type, params) ==
    LET a == IF "a" \in DOMAIN params THEN params["a"] ELSE I(1)
        t0 == IF "t0" \in DOMAIN params THEN params["t0"] ELSE I(1)
        width == IF signal_type = "pulse" THEN a ELSE t0
    IN  IF signal_type \in {"pulse", "delayed"}
            THEN (IF RLt(I(10), RMul(I(10), width)) THEN RMul(I(10), width) ELSE I(10))
        ELSE I(20)

\* C19: the simulation duration, where the grid of a solve ends, is
\* max(10*a, 0.01) for pulse, max(10*t0, 0.01) for delayed and exactly 0.02 for
\* step, ramp and impulse, with a and t0 defaulting to 0.001 (so the default
\* pulse/delayed duration is 0.01).
C19_DurationPolicy ==
    SolveReturned
        => ret.value.time[NumPoints] = PolicyDuration(call.signal_type, call.params)

C19_Witness ==
    /\ SolveReturned
    /\ call.signal_type = "pulse"
    /\ "a" \notin DOMAIN call.params
    /\ ret.value.time[NumPoints] = I(10)

\* C20: the three voltages are computed from the returned current alone, on
\* either path: V_R[k] = R*i[k]; V_C[0] = 0 and V_C[k] = V_C[k-1] +
\* (i[k] + i[k-1])/2 * dt/C; V_L = L times the finite-difference gradient of i
\* over the grid (central inside, one-sided at both ends).  On the fallback
\* path V_C is this trapezoid, not the integrator's own v_C.
C20_VoltagesFromCurrent ==
    SolveReturned
        => LET i == ret.value.current
               dt == RSub(ret.value.time[2], ret.value.time[1])
               N == Len(i)
           IN  /\ \A k \in 1..N : ret.value.voltage_R[k] = RMul(call.R, i[k])
               /\ ret.value.voltage_C[1] = I(0)
               /\ \A k \in 2..N :
                      ret.value.voltage_C[k]
                          = RAdd(ret.value.voltage_C[k - 1],
                                 RDiv(RMul(RDiv(RAdd(i[k], i[k - 1]), I(2)), dt), call.C))
               /\ ret.value.voltage_L[1] = RMul(call.L, RDiv(RSub(i[2], i[1]), dt))
               /\ ret.value.voltage_L[N] = RMul(call.L, RDiv(RSub(i[N], i[N - 1]), dt))
               /\ \A k \in 2..(N - 1) :
                      ret.value.voltage_L[k]
                          = RMul(call.L, RDiv(RSub(i[k + 1], i[k - 1]), RMul(I(2), dt)))

C20_Witness ==
    /\ SolveReturned
    /\ call.path = "euler"
    /\ ret.value.voltage_L[2] # I(0)
    /\ ret.value.voltage_C[NumPoints]
           # CapacitorState(ret.value.current, NumPoints,
                            RSub(ret.value.time[2], ret.value.time[1]), call.C)

\* The spacing of the grid a solve returned: time_array[1] - time_array[0].
GridSpacing == RSub(ret.value.time[2], ret.value.time[1])

\* C21: for every signal kind and every finite width/delay, zero and negative
\* included, the duration the policy returns is at least 0.01 s, so the grid of
\* a solve has strictly positive spacing dt: the impulse height A/(2*dt), the
\* Euler step and the trapezoidal integration never run with dt = 0, and the
\* samples they produce from finite inputs are finite.
C21_DurationAtLeastMinimum ==
    SolveReturned
        => /\ RGe(ret.value.time[NumPoints], I(MinDuration))
           /\ RLt(I(0), GridSpacing)
           /\ \A k \in 1..NumPoints - 1 :
                  RSub(ret.value.time[k + 1], ret.value.time[k]) = GridSpacing
           /\ \A k \in 1..NumPoints :
                  /\ IsFinite(ret.value.input_signal[k])
                  /\ call.path = "euler"
                         => /\ IsFinite(ret.value.current[k])
                            /\ IsFinite(ret.value.voltage_C[k])

C21_Witness ==
    /\ SolveReturned
    /\ call.signal_type = "pulse"
    /\ "a" \in DOMAIN call.params
    /\ call.params["a"] = I(-1)
    /\ call.path = "euler"
    /\ ret.value.time[NumPoints] = I(MinDuration)
    /\ RLt(I(0), GridSpacing)

(***************************************************************************)
(* ui/parameter_form.py and ui/main_window.py.                             *)
(***************************************************************************)
\* What the user can type into the fields and pick in the combo box.
FieldTexts(field) ==
    IF field = "r_input" THEN {Text(I(100)), Text(I(0)), BadText}
    ELSE IF field = "l_input" THEN {Text(I(100)), Text(I(-1))}
    ELSE IF field = "c_input" THEN {Text(Rat(1, 100)), Text(I(0))}
    ELSE IF field = "amplitude_input" THEN {Text(I(10)), BadText}
    ELSE IF field = "param_a_input" THEN {Text(I(1)), Text(I(0)), Text(I(-1))}
    ELSE IF field = "param_t0_input" THEN {Text(I(1)), Text(I(-1))}
    ELSE 0..4

Fields == DOMAIN InitForm

\* signal_types = ['step', 'pulse', 'ramp', 'delayed', 'impulse']
signal_types == <<"step", "pulse", "ramp", "delayed", "impulse">>

\* ParameterForm.get_parameters: float() of each field in turn.
get_parameters(f) ==
    IF \/ ~f.r_input.ok \/ ~f.l_input.ok \/ ~f.c_input.ok \/ ~f.amplitude_input.ok
       \/ (f.signal_combo = 1 /\ ~f.param_a_input.ok)
       \/ (f.signal_combo = 3 /\ ~f.param_t0_input.ok)
        THEN Raise("ValueError")
    ELSE Return([R |-> f.r_input.v, L |-> f.l_input.v, C |-> f.c_input.v,
                 signal_type |-> signal_types[f.signal_combo + 1],
                 signal_params |->
                     IF f.signal_combo = 1
                         THEN [key \in {"amplitude", "a"} |->
                                  IF key = "a" THEN f.param_a_input.v
                                  ELSE f.amplitude_input.v]
                     ELSE IF f.signal_combo = 3
                         THEN [key \in {"amplitude", "t0"} |->
                                  IF key = "t0" THEN f.param_t0_input.v
                                  ELSE f.amplitude_input.v]
                     ELSE [key \in {"amplitude"} |-> f.amplitude_input.v]])

\* One entry of events: the user's action or the handler entered, a call the
\* handler makes, or a dialog it shows with its text.
Ev(what, text) == [what |-> what, text |-> text]

\* The user edits one field; no handler of the window runs.
EditForm ==
    /\ \E field \in Fields :
           \E text \in FieldTexts(field) :
               /\ form' = [form EXCEPT ![field] = text]
               /\ events' = <<Ev("edit", "")>>
    /\ UNCHANGED <<rlc_model, solution_text, figure, file, laplace_solver, call, ret>>

\* simulate validates R alone.
rejects_R_only(params) == RLe(params.R, I(0))

\* simulate: if params['R'] <= 0 or params['L'] <= 0 or params['C'] <= 0
rejects(params) ==
    RLe(params.R, I(0)) \/ RLe(params.L, I(0)) \/ RLe(params.C, I(0))

\* A simulate that clears the figure before it calls solve.
simulate_accepted_clear_first(params, model, sol) ==
    IF model.raised # "none"
        THEN /\ events' = <<Ev("simulate", ""), Ev("get_parameters", ""), Ev("RLCModel", ""),
                            Ev("critical", model.raised)>>
             /\ UNCHANGED <<rlc_model, solution_text, figure, laplace_solver>>
    ELSE IF sol.raised # "none"
        THEN /\ rlc_model' = [exists |-> TRUE, model |-> model.value]
             /\ events' = <<Ev("simulate", ""), Ev("get_parameters", ""), Ev("RLCModel", ""),
                            Ev("clear", ""), Ev("solve", ""), Ev("critical", sol.raised)>>
             /\ laplace_solver' = solve_self(laplace_solver, params.signal_type,
                                             params.signal_params)
             /\ figure' = NoFigure
             /\ UNCHANGED solution_text
    ELSE /\ rlc_model' = [exists |-> TRUE, model |-> model.value]
         /\ laplace_solver' = solve_self(laplace_solver, params.signal_type,
                                         params.signal_params)
         /\ solution_text' = [shown |-> TRUE, symbolic |-> sol.value]
         /\ figure' = [axes |-> TRUE,
                       plotted |-> [R |-> params.R, L |-> params.L, C |-> params.C,
                                    signal_type |-> params.signal_type,
                                    signal_params |-> params.signal_params]]
         /\ events' = <<Ev("simulate", ""), Ev("get_parameters", ""), Ev("RLCModel", ""),
                        Ev("clear", ""), Ev("solve", ""), Ev("setText", ""),
                        Ev("plot_results", ""), Ev("draw", ""),
                        Ev("information", "Simulacion completada correctamente")>>

\* simulate, once the parameters are read and pass the validation.
simulate_accepted(params, model, sol) ==
    IF model.raised # "none"
        THEN /\ events' = <<Ev("simulate", ""), Ev("get_parameters", ""), Ev("RLCModel", ""),
                            Ev("critical", model.raised)>>
             /\ UNCHANGED <<rlc_model, solution_text, figure, laplace_solver>>
    ELSE IF sol.raised # "none"
        THEN /\ rlc_model' = [exists |-> TRUE, model |-> model.value]
             /\ events' = <<Ev("simulate", ""), Ev("get_parameters", ""), Ev("RLCModel", ""), Ev("solve", ""),
                            Ev("critical", sol.raised)>>
             /\ laplace_solver' = solve_self(laplace_solver, params.signal_type,
                                             params.signal_params)
             /\ UNCHANGED <<solution_text, figure>>
    ELSE /\ rlc_model' = [exists |-> TRUE, model |-> model.value]
         /\ laplace_solver' = solve_self(laplace_solver, params.signal_type,
                                         params.signal_params)
         /\ solution_text' = [shown |-> TRUE, symbolic |-> sol.value]
         /\ figure' = [axes |-> TRUE,
                       plotted |-> [R |-> params.R, L |-> params.L, C |-> params.C,
                                    signal_type |-> params.signal_type,
                                    signal_params |-> params.signal_params]]
         /\ events' = <<Ev("simulate", ""), Ev("get_parameters", ""), Ev("RLCModel", ""), Ev("solve", ""),
                        Ev("setText", ""), Ev("clear", ""), Ev("plot_results", ""),
                        Ev("draw", ""), Ev("information", "Simulacion completada correctamente")>>

\* sp.simplify(I_s), solve line 47, stands outside the try blocks of solve: it
\* returns the simplified expression or raises, and then solve raises.
Simplifications == {"simplified", "raise"}

\* solve as simulate sees it up to the symbolic result: an exception of
\* sp.simplify leaves solve before the inversion.
solve_symbolic_simplifying(simplification, R, L, C, signal_type, signal_params, env) ==
    LET V == get_signal_laplace(signal_type, signal_params)
    IN  IF V.raised = "none" /\ simplification = "raise" THEN Raise("Exception")
        ELSE solve_symbolic(R, L, C, signal_type, signal_params, env)

\* MainWindow.simulate, with what SymPy does on the simplification and the
\* inversion.
Simulate ==
    /\ \E inversion \in Inversions, simplification \in Simplifications :
           LET p == get_parameters(form)
           IN  IF p.raised # "none"
                   THEN /\ events' = <<Ev("simulate", ""), Ev("get_parameters", ""), Ev("critical", p.raised)>>
                        /\ UNCHANGED <<rlc_model, solution_text, figure, laplace_solver>>
               ELSE IF rejects(p.value)
                   THEN /\ events' = <<Ev("simulate", ""), Ev("get_parameters", ""),
                                       Ev("warning", "Los valores de R, L y C deben ser positivos")>>
                        /\ UNCHANGED <<rlc_model, solution_text, figure, laplace_solver>>
               ELSE simulate_accepted(
                        p.value,
                        RLCModel(p.value.R, p.value.L, p.value.C),
                        solve_symbolic_simplifying(
                            simplification, p.value.R, p.value.L, p.value.C,
                            p.value.signal_type, p.value.signal_params,
                            Env(inversion, "real", NoTrace, NumPoints + 1)))
    /\ UNCHANGED <<form, file, call, ret>>

\* An export that takes every figure as plotted.
has_axes_always(fig) == TRUE

\* self.figure.get_axes() as a condition: the list of axes is not empty.
has_axes(fig) == fig.axes

\* MainWindow.export_plot: the user cancels the dialog or names the image file.
ExportPlot ==
    /\ \E filename \in {"", "plot.png"} :
           events' = IF ~has_axes(figure)
                         THEN <<Ev("export_plot", ""),
                                Ev("warning", "No hay grafica para exportar")>>
                     ELSE IF filename = ""
                         THEN <<Ev("export_plot", ""), Ev("getSaveFileName", "")>>
                     ELSE <<Ev("export_plot", ""), Ev("getSaveFileName", filename),
                            Ev("savefig", filename), Ev("information", "Grafica exportada")>>
    /\ UNCHANGED <<form, rlc_model, solution_text, figure, file, laplace_solver, call, ret>>

(***************************************************************************)
(* ui/main_window.py: save_parameters and load_parameters.                 *)
(*                                                                         *)
(* A file holds the JSON object that json.load returns for it.  json.dump  *)
(* writes each float by float.__repr__, which json.load reads back as the  *)
(* same float, and str() of that float is a text that float() parses to    *)
(* it: the text of a field is kept as Text(v), any text that parses to v.  *)
(***************************************************************************)
json_dump(params) == [exists |-> TRUE, object |-> params]

json_load(f) == f.object

\* JSON files not written by this program that the user can pick: two whose
\* signal_type is not a known kind, with all and with one of the signal
\* parameters, and one without the key 'L'.
ForeignFiles ==
    {[R |-> I(0), L |-> I(-1), C |-> I(0), signal_type |-> "square",
      signal_params |-> [key \in {"amplitude", "a", "t0"} |->
                            IF key = "amplitude" THEN I(10) ELSE I(-1)]],
     [R |-> I(100), L |-> I(100), C |-> I(0), signal_type |-> "sine",
      signal_params |-> [key \in {"a"} |-> I(0)]],
     [R |-> I(0)]}

\* The names of those files in the dialog.
ForeignName(object) ==
    IF "signal_type" \in DOMAIN object THEN "other.json" ELSE "partial.json"

\* signal_types.index(params['signal_type'])
index(signal_type) == (CHOOSE k \in 1..Len(signal_types) : signal_types[k] = signal_type) - 1

\* set_parameters never touches the combo box.
set_signal_type_ignored(f, params) == f

\* set_parameters: if params['signal_type'] in signal_types: setCurrentIndex(index)
set_signal_type(f, params) ==
    IF \E k \in 1..Len(signal_types) : signal_types[k] = params.signal_type
        THEN [f EXCEPT !.signal_combo = index(params.signal_type)]
    ELSE f

\* A set_parameters that skips the signal parameters of a record whose
\* signal_type it does not know.
set_signal_params_known_only(f, params) ==
    IF \A k \in 1..Len(signal_types) : signal_types[k] # params.signal_type THEN f
    ELSE IF "signal_params" \notin DOMAIN params THEN f
    ELSE LET sp == params.signal_params
         IN  [f EXCEPT !.amplitude_input =
                           IF "amplitude" \in DOMAIN sp THEN Text(sp["amplitude"]) ELSE @,
                       !.param_a_input = IF "a" \in DOMAIN sp THEN Text(sp["a"]) ELSE @,
                       !.param_t0_input = IF "t0" \in DOMAIN sp THEN Text(sp["t0"]) ELSE @]

\* set_parameters: if 'signal_params' in params: the keys present overwrite their fields.
set_signal_params(f, params) ==
    IF "signal_params" \notin DOMAIN params THEN f
    ELSE LET sp == params.signal_params
         IN  [f EXCEPT !.amplitude_input =
                           IF "amplitude" \in DOMAIN sp THEN Text(sp["amplitude"]) ELSE @,
                       !.param_a_input = IF "a" \in DOMAIN sp THEN Text(sp["a"]) ELSE @,
                       !.param_t0_input = IF "t0" \in DOMAIN sp THEN Text(sp["t0"]) ELSE @]

\* ParameterForm.set_parameters: the form it leaves, and the KeyError it raises
\* at the first missing key, the fields before it already overwritten.
set_parameters(f, params) ==
    IF "R" \notin DOMAIN params THEN [raised |-> "KeyError", form |-> f]
    ELSE IF "L" \notin DOMAIN params
        THEN [raised |-> "KeyError", form |-> [f EXCEPT !.r_input = Text(params.R)]]
    ELSE IF "C" \notin DOMAIN params
        THEN [raised |-> "KeyError",
              form |-> [f EXCEPT !.r_input = Text(params.R), !.l_input = Text(params.L)]]
    ELSE IF "signal_type" \notin DOMAIN params
        THEN [raised |-> "KeyError",
              form |-> [f EXCEPT !.r_input = Text(params.R), !.l_input = Text(params.L),
                                 !.c_input = Text(params.C)]]
    ELSE [raised |-> "none",
          form |-> set_signal_params(
                       set_signal_type([f EXCEPT !.r_input = Text(params.R),
                                                 !.l_input = Text(params.L),
                                                 !.c_input = Text(params.C)], params),
                       params)]

\* MainWindow.save_parameters: the user cancels the dialog or names the file.
SaveParameters ==
    /\ \E filename \in {"", "params.json"} :
           LET p == get_parameters(form)
           IN  IF filename = ""
                   THEN /\ events' = <<Ev("save_parameters", ""), Ev("getSaveFileName", "")>>
                        /\ file' = file
               ELSE IF p.raised # "none"
                   THEN /\ events' = <<Ev("save_parameters", ""),
                                       Ev("getSaveFileName", filename),
                                       Ev("get_parameters", ""), Ev("raise", p.raised)>>
                        /\ file' = file
               ELSE /\ events' = <<Ev("save_parameters", ""), Ev("getSaveFileName", filename),
                                   Ev("get_parameters", ""), Ev("json.dump", filename),
                                   Ev("information", "Parametros guardados")>>
                    /\ file' = json_dump(p.value)
    /\ UNCHANGED <<form, rlc_model, solution_text, figure, laplace_solver, call, ret>>

\* load_parameters once a file is chosen and read.
load_object(filename, object) ==
    LET out == set_parameters(form, object)
    IN  /\ form' = out.form
        /\ events' = <<Ev("load_parameters", ""), Ev("getOpenFileName", filename),
                       Ev("json.load", filename), Ev("set_parameters", ""),
                       IF out.raised = "none"
                           THEN Ev("information", "Parametros cargados correctamente")
                       ELSE Ev("critical", out.raised)>>

\* MainWindow.load_parameters: the user cancels the dialog, picks the file that
\* save_parameters wrote, or picks another JSON file.
LoadParameters ==
    /\ \/ /\ events' = <<Ev("load_parameters", ""), Ev("getOpenFileName", "")>>
          /\ form' = form
       \/ /\ file # NoFile
          /\ load_object("params.json", json_load(file))
       \/ \E object \in ForeignFiles : load_object(ForeignName(object), object)
    /\ UNCHANGED <<file, rlc_model, solution_text, figure, laplace_solver, call, ret>>

Next == EditForm \/ Simulate \/ ExportPlot

Spec == Init /\ [][Next]_vars

\* The form and its file alone: editing, saving and loading.
PersistNext == EditForm \/ SaveParameters \/ LoadParameters

PersistSpec == Init /\ [][PersistNext]_vars

(***************************************************************************)
(* Properties of the MainWindow handlers, checked under Spec.              *)
(***************************************************************************)
\* The form reads without error and one of R, L, C is not positive.
FormNonPositive ==
    LET p == get_parameters(form)
    IN  /\ p.raised = "none"
        /\ (RLe(p.value.R, I(0)) \/ RLe(p.value.L, I(0)) \/ RLe(p.value.C, I(0)))

\* A step of the simulate handler.
SimulateStep == form' = form /\ events' # <<>> /\ events'[1] = Ev("simulate", "")

\* C5: in simulate, if any of R, L, C read from the form is <= 0, the request is
\* rejected before an RLCModel is constructed: a warning is shown, solve is not
\* called, and rlc_model, the solution text and the figure are left unchanged.
C5_SimulateRejectsNonPositive ==
    [][(SimulateStep /\ FormNonPositive)
           => /\ events' = <<Ev("simulate", ""), Ev("get_parameters", ""),
                             Ev("warning", "Los valores de R, L y C deben ser positivos")>>
              /\ rlc_model' = rlc_model
              /\ solution_text' = solution_text
              /\ figure' = figure]_vars

C5_Witness ==
    /\ FormNonPositive
    /\ events = <<Ev("simulate", ""), Ev("get_parameters", ""),
                  Ev("warning", "Los valores de R, L y C deben ser positivos")>>
    /\ rlc_model # NoModel
    /\ solution_text # NoText
    /\ figure # NoFigure

\* The last action was a simulate that called solve (with the parameters the
\* form still shows: simulate leaves the form alone).
SimulateCalledSolve ==
    /\ Len(events) >= 4
    /\ events[1] = Ev("simulate", "")
    /\ events[4] = Ev("solve", "")

\* C17: every signal specification that reaches solve through simulate has its
\* width a / delay t0, when present, non-negative and finite: a negative width
\* or delay is never passed to the solver.
C17_OnlyNonNegativeWidthReachesSolve ==
    SimulateCalledSolve
        => LET sp == get_parameters(form).value.signal_params
           IN  \A key \in DOMAIN sp \ {"amplitude"} :
                   IsFinite(sp[key]) /\ RGe(sp[key], I(0))

\* The positions in the events of a handler where it does what.
Positions(evs, what) == {k \in 1..Len(evs) : evs[k].what = what}

\* C22: in simulate, if reading the form or solve raises, exactly one critical
\* error dialog carrying the exception is shown, as the last thing simulate
\* does, no success dialog is shown, and the solution text and the figure are
\* left exactly as they were before the call; the success dialog is shown only
\* after the solution text was set and the figure was replotted and drawn.
C22_SimulateFailureLeavesDisplay ==
    [][SimulateStep
           => LET evs == events'
                  raised == IF get_parameters(form).raised # "none"
                                THEN {get_parameters(form).raised}
                            ELSE IF /\ Positions(evs, "solve") # {}
                                    /\ Positions(evs, "setText") = {}
                                THEN {"Exception", "ValueError"}
                            ELSE {}
              IN  /\ raised # {}
                     => /\ Cardinality(Positions(evs, "critical")) = 1
                        /\ evs[Len(evs)].what = "critical"
                        /\ evs[Len(evs)].text \in raised
                        /\ Positions(evs, "information") = {}
                        /\ solution_text' = solution_text
                        /\ figure' = figure
                  /\ \A k \in Positions(evs, "information") :
                         /\ \E a \in Positions(evs, "setText"), b \in Positions(evs, "clear"),
                               c \in Positions(evs, "plot_results"),
                               d \in Positions(evs, "draw") :
                                a < b /\ b < c /\ c < d /\ d < k
                         /\ Positions(evs, "critical") = {}
                         /\ solution_text'.shown
                         /\ figure'.axes]_vars

\* solve raised in a simulate made over an earlier, plotted simulation.
C22_Witness ==
    /\ events = <<Ev("simulate", ""), Ev("get_parameters", ""), Ev("RLCModel", ""),
                  Ev("solve", ""), Ev("critical", "Exception")>>
    /\ solution_text.shown
    /\ figure.axes
    /\ figure.plotted.signal_type # get_parameters(form).value.signal_type

\* A step of the export_plot handler.
ExportStep == events' # <<>> /\ events'[1] = Ev("export_plot", "")

\* C23: export_plot writes a file only when the figure has axes, and the figure
\* of a fresh window has none until a simulate call reaches plotting: every
\* export_plot invocation before that shows the 'no plot to export' warning and
\* saves nothing; rejected or failed simulations do not enable export.
C23_ExportNeedsPlottedFigure ==
    /\ figure = NoFigure
    /\ [][/\ (~figure.axes /\ figure'.axes)
                 => /\ SimulateStep
                    /\ Positions(events', "plot_results") # {}
                    /\ Positions(events', "critical") = {}
          /\ (ExportStep /\ ~figure.axes)
                 => /\ events' = <<Ev("export_plot", ""),
                                   Ev("warning", "No hay grafica para exportar")>>
                    /\ figure' = figure
          /\ (ExportStep /\ Positions(events', "savefig") # {}) => figure.axes]_vars

\* An export refused after a simulation that failed in solve.
C23_Witness ==
    /\ events = <<Ev("export_plot", ""), Ev("warning", "No hay grafica para exportar")>>
    /\ rlc_model.exists
    /\ figure = NoFigure

(***************************************************************************)
(* An RLCModel object held by a caller (rlc_model) and the operations of   *)
(* the core on it.  Each operation gives the object as it leaves it (self) *)
(* beside what it returns.  f_0 = omega_0/(2*pi) is carried by omega_0_sq, *)
(* and a frequency by its angular frequency omega = 2*pi*frequency.        *)
(***************************************************************************)
\* 2*pi*frequency of the frequencies handed to get_impedance.
Omegas == {I(0), I(1), Rat(1, 10)}

\* A get_impedance that keeps its last reactance on the object, in place of omega_d.
get_impedance_caching(self, omega) ==
    [self |-> [self EXCEPT !.omega_d_sq = RMul(omega, self.L)],
     ret |-> Return([re |-> self.R,
                     im |-> RSub(RMul(omega, self.L), RDiv(I(1), RMul(omega, self.C)))])]

\* RLCModel.get_impedance: 1 / (omega * self.C) raises on a zero product.
get_impedance(self, omega) ==
    [self |-> self,
     ret |-> IF RMul(omega, self.C).n = 0 THEN Raise("ZeroDivisionError")
             ELSE Return([re |-> self.R,
                          im |-> RSub(RMul(omega, self.L),
                                      RDiv(I(1), RMul(omega, self.C)))])]

\* RLCModel.get_info
get_info(self) ==
    [self |-> self,
     ret |-> Return([R |-> self.R, L |-> self.L, C |-> self.C,
                     omega_0_sq |-> self.omega_0_sq, zeta_sq |-> self.zeta_sq,
                     damping_type |-> self.damping_type, omega_d_sq |-> self.omega_d_sq])]

\* RLCModel.__str__: the fields the text shows.
model_str(self) ==
    [self |-> self,
     ret |-> Return(<<"Circuito RLC:", self.R, self.L, self.C, self.omega_0_sq,
                      self.zeta_sq, self.damping_type>>)]

\* LaplaceSolver.solve on the object: R, L, C = rlc_model.R, rlc_model.L, rlc_model.C
solve_on(self, signal_type, signal_params, env) ==
    [self |-> self, ret |-> solve(self.R, self.L, self.C, signal_type, signal_params, env).ret]

NewModel ==
    /\ \E R \in CtorR, L \in CtorL, C \in CtorC :
           /\ call' = [op |-> "RLCModel", R |-> R, L |-> L, C |-> C]
           /\ ret' = RLCModel(R, L, C)
           /\ rlc_model' = IF ret'.raised = "none"
                               THEN [exists |-> TRUE, model |-> ret'.value]
                           ELSE rlc_model
    /\ UNCHANGED <<form, solution_text, figure, events, file, laplace_solver>>

\* One operation on the held object: what it leaves and what it returns.
Operate(op, out) ==
    /\ call' = [op |-> op]
    /\ ret' = out.ret
    /\ rlc_model' = [exists |-> TRUE, model |-> out.self]
    /\ UNCHANGED <<form, solution_text, figure, events, file, laplace_solver>>

GetImpedance ==
    /\ rlc_model.exists
    /\ \E omega \in Omegas : Operate("get_impedance", get_impedance(rlc_model.model, omega))

GetInfo ==
    /\ rlc_model.exists
    /\ Operate("get_info", get_info(rlc_model.model))

Str ==
    /\ rlc_model.exists
    /\ Operate("__str__", model_str(rlc_model.model))

\* solve is handed a circuit with positive R, L, C.
SolveOnModel ==
    /\ rlc_model.exists
    /\ RLt(I(0), rlc_model.model.R)
    /\ RLt(I(0), rlc_model.model.L)
    /\ RLt(I(0), rlc_model.model.C)
    /\ \E signal_type \in AllKinds :
           \E env \in {Env("closed", "real", NoTrace, NumPoints + 1),
                       Env("raise", "raise", NoTrace, NumPoints + 1)} :
               Operate("solve", solve_on(rlc_model.model, signal_type,
                                         [key \in {"amplitude"} |-> I(5)], env))

ModelNext == NewModel \/ GetImpedance \/ GetInfo \/ Str \/ SolveOnModel

ModelSpec == Init /\ [][ModelNext]_vars

(***************************************************************************)
(* Properties of a held RLCModel, checked under ModelSpec.                 *)
(***************************************************************************)
\* C15: an RLCModel is never mutated after construction: no operation of the
\* core (solve, get_impedance, get_info, __str__) changes R, L, C or a derived
\* field, and after any sequence of operations the derived fields are still the
\* functions of R, L, C computed at construction.
C15_ModelNeverMutated ==
    [][/\ (rlc_model.exists /\ call'.op # "RLCModel") => rlc_model' = rlc_model
       /\ rlc_model'.exists
              => Return(rlc_model'.model)
                     = RLCModel(rlc_model'.model.R, rlc_model'.model.L, rlc_model'.model.C)
      ]_vars

C15_Witness ==
    /\ rlc_model.exists
    /\ rlc_model.model.damping_type = "subamortiguado"
    /\ call.op = "solve"
    /\ ret.raised = "none"

(***************************************************************************)
(* Properties of saving and loading, checked under PersistSpec.            *)
(***************************************************************************)
\* A step of save_parameters that wrote the file.
SavedStep ==
    /\ Len(events') = 5
    /\ events'[1] = Ev("save_parameters", "")
    /\ events'[4] = Ev("json.dump", "params.json")

\* A step of load_parameters that read the file save_parameters wrote.
LoadSavedStep ==
    /\ Len(events') = 5
    /\ events'[1] = Ev("load_parameters", "")
    /\ events'[3] = Ev("json.load", "params.json")

\* C14: saving the form's parameter record and then loading that file reproduces
\* the record: the file holds what get_parameters returned when it was saved,
\* and get_parameters after the load returns what the file holds (same R, L, C,
\* kind and signal parameters, with the same keys present).
C14_SaveLoadRoundTrip ==
    [][/\ SavedStep => get_parameters(form) = Return(json_load(file'))
       /\ LoadSavedStep => get_parameters(form') = Return(json_load(file))]_vars

C14_Witness ==
    /\ Len(events) = 5
    /\ events[3] = Ev("json.load", "params.json")
    /\ events[5] = Ev("information", "Parametros cargados correctamente")
    /\ json_load(file).signal_type = "pulse"
    /\ json_load(file).signal_params = [key \in {"amplitude", "a"} |->
                                           IF key = "a" THEN I(0) ELSE I(10)]
    /\ get_parameters(form) = Return(json_load(file))

\* A step of load_parameters that read the file whose signal_type is not one
\* of the five kinds.
LoadUnknownKindStep ==
    /\ Len(events') = 5
    /\ events'[1] = Ev("load_parameters", "")
    /\ events'[3] = Ev("json.load", "other.json")

\* The field of the form that shows a signal parameter.
FieldOfKey(key) ==
    IF key = "amplitude" THEN "amplitude_input"
    ELSE IF key = "a" THEN "param_a_input"
    ELSE "param_t0_input"

\* The signal parameters get_parameters reads for the kind at a combo index.
KeysOfIndex(signal_index) ==
    IF signal_index = 1 THEN {"amplitude", "a"}
    ELSE IF signal_index = 3 THEN {"amplitude", "t0"}
    ELSE {"amplitude"}

\* C24: set_parameters with a record whose signal_type is not one of the five
\* recognized kinds raises no error and leaves the form's signal-kind
\* selection unchanged, while R, L, C and any amplitude / a / t0 present in the
\* record are still overwritten; a subsequent get_parameters reports the
\* previously selected kind together with the newly loaded values.
C24_UnknownKindKeepsSelection ==
    [][LoadUnknownKindStep
           => \E object \in ForeignFiles :
                  /\ "signal_type" \in DOMAIN object
                  /\ object.signal_type \notin SignalTypes
                  /\ events'[5] = Ev("information", "Parametros cargados correctamente")
                  /\ form'.signal_combo = form.signal_combo
                  /\ form'.r_input = Text(object.R)
                  /\ form'.l_input = Text(object.L)
                  /\ form'.c_input = Text(object.C)
                  /\ \A key \in ParamKeys :
                         form'[FieldOfKey(key)]
                             = IF key \in DOMAIN object.signal_params
                                   THEN Text(object.signal_params[key])
                               ELSE form[FieldOfKey(key)]
                  /\ form'.amplitude_input.ok
                         => get_parameters(form')
                                = Return([R |-> object.R, L |-> object.L, C |-> object.C,
                                          signal_type |-> signal_types[form.signal_combo + 1],
                                          signal_params |->
                                              [key \in KeysOfIndex(form.signal_combo) |->
                                                  form'[FieldOfKey(key)].v]])]_vars

\* The unknown-kind file was loaded over a form that had 'delayed' selected and
\* other values in its fields.
C24_Witness ==
    /\ Len(events) = 5
    /\ events[3] = Ev("json.load", "other.json")
    /\ events[5] = Ev("information", "Parametros cargados correctamente")
    /\ form.signal_combo = 3
    /\ get_parameters(form).value.signal_type = "delayed"
    /\ get_parameters(form).value.signal_params
           = [key \in {"amplitude", "t0"} |-> IF key = "t0" THEN I(-1) ELSE I(10)]
    /\ form.r_input = Text(I(0))

====
